---- MODULE Spec2Model ----
(***************************************************************************)
(* A model of DeepBayesMutSig/barplots.py: the two report calls            *)
(* (larger_context_barplot, create_96_barplot), the long-form parser       *)
(* parse_lager_context_df and the two page renderers                       *)
(* (create_increased_context_barplot, parse_96_df).                        *)
(*                                                                         *)
(* Strings are sequences of one-character strings, so that indexing,       *)
(* slicing and the two regular expressions are computed and not assumed.   *)
(* Python indices are 0-based; the operators below take the 0-based index  *)
(* of the source and add one where a TLA+ sequence is read.                *)
(***************************************************************************)
EXTENDS Integers, Sequences, FiniteSets, TLC

VARIABLES df, callerCols, pc, call, sorted_columns, i, result_df, doc,
          figures, outcome, cause, injected, calls

vars == <<df, callerCols, pc, call, sorted_columns, i, result_df, doc,
          figures, outcome, cause, injected, calls>>

(***************************************************************************)
(* Bounds of the model.                                                    *)
(***************************************************************************)
\* rows of an input table
MaxRows == 2
\* report calls made one after the other on the same table object
MaxCalls == 2
\* name groups of the long-form rows handed directly to the panel renderer
MaxGroups == 6
\* flanking bases (a prefix of amino) used to build MUTATION_LIST
NumFlankBases == 2

\* cell values of the sample columns
Values == {0, 1}

\* column orders a caller supplies (the columns after MutationType)
ColumnOrders == { <<>>, <<"SBS10", "SBS2">>, <<"SBS10", "SBS1", "SBS2">> }

\* the column orders of the tables handed to the parser alone
ParseColumnOrders == { <<"SBS2">>, <<"SBS10", "SBS2">> }

(***************************************************************************)
(* Mutation-type keys of the model's tables.                               *)
(***************************************************************************)
Key_ACA_A == <<"A", "[", "C", ">", "A", "]", "A">>
Key_CCA_A == <<"C", "[", "C", ">", "A", "]", "A">>
Key_ATC_C == <<"A", "[", "T", ">", "C", "]", "C">>
\* a key without brackets: both patterns fail on it
Key_Malformed == <<"A", "C", "A">>
\* a pentanucleotide key whose trinucleotide core is A[C>A]A
Key_Penta == <<"C", "A", "[", "C", ">", "A", "]", "A", "C">>

Keys == {Key_ACA_A, Key_CCA_A, Key_ATC_C, Key_Malformed, Key_Penta}

\* the keys of the tables handed to parse_lager_context_df on its own: they
\* carry a context (line 70 has run), in one or two classes and two lengths
ParseKeys == {Key_ACA_A, Key_ATC_C, Key_Penta}

\* pandas' missing value: what str.extract and str[idx] give when nothing is there
NaN == <<"NaN">>

\* characters the regular expression class \w matches in the model's alphabet
WordChars == {"A", "C", "G", "T", "N"}

(***************************************************************************)
(* Sequence helpers.                                                       *)
(***************************************************************************)
Range(s) == {s[x] : x \in DOMAIN s}

\* pandas unique() / drop_duplicates() on s[lo .. hi]: the values in first-seen
\* order
RECURSIVE UniqueBetween(_, _, _)
UniqueBetween(s, lo, hi) ==
    IF lo > hi THEN <<>>
    ELSE IF lo = hi THEN <<s[lo]>>
    ELSE LET mid   == (lo + hi) \div 2
             left  == UniqueBetween(s, lo, mid)
             right == UniqueBetween(s, mid + 1, hi)
             seen  == Range(left)
         IN  left \o SelectSeq(right, LAMBDA x : x \notin seen)

Unique(s) == UniqueBetween(s, 1, Len(s))

\* Python's seq[0:-1]
AllButLast(s) == IF s = <<>> THEN <<>> ELSE SubSeq(s, 1, Len(s) - 1)

\* Python's zip on two sequences stops at the shorter one
ZipLen(a, b) == IF Len(a) < Len(b) THEN Len(a) ELSE Len(b)

\* Series.str[idx] for a 0-based idx >= 0: the missing value past the end of
\* the string, which equals no character
StrAt(s, idx) == IF idx + 1 \in DOMAIN s THEN s[idx + 1] ELSE "NaN"

(***************************************************************************)
(* The two regular expressions.                                            *)
(***************************************************************************)
\* places where \w\[.*\]\w can match: start a, closing bracket at b
ContextMatches(s) ==
    { m \in (DOMAIN s) \X (DOMAIN s) :
        /\ s[m[1]] \in WordChars
        /\ m[1] + 1 \in DOMAIN s
        /\ s[m[1] + 1] = "["
        /\ m[2] >= m[1] + 2
        /\ s[m[2]] = "]"
        /\ m[2] + 1 \in DOMAIN s
        /\ s[m[2] + 1] \in WordChars }

Min(S) == CHOOSE x \in S : \A y \in S : x <= y
Max(S) == CHOOSE x \in S : \A y \in S : x >= y

\* the spec's reading of line 70: the bracket's content alone
ExtractContextBare(s) ==
    LET opens == { a \in DOMAIN s :
                     s[a] = "[" /\ \E b \in DOMAIN s : b > a /\ s[b] = "]" }
    IN  IF opens = {} THEN NaN
        ELSE LET a == Min(opens)
                 b == Min({ c \in DOMAIN s : c > a /\ s[c] = "]" })
             IN  SubSeq(s, a + 1, b - 1)

\* str.extract(r"(\w\[.*\]\w)"): leftmost match, .* greedy; NaN when none
ExtractContext(s) ==
    LET ms == ContextMatches(s)
    IN  IF ms = {} THEN NaN
        ELSE LET a == Min({ m[1] : m \in ms })
                 b == Max({ m[2] : m \in { n \in ms : n[1] = a } })
             IN  SubSeq(s, a, b + 1)

\* str.extract(r"\[(.*?)\]"): leftmost "[", .*? lazy; NaN when none
ExtractMutation(s) ==
    LET opens == { a \in DOMAIN s :
                     s[a] = "[" /\ \E b \in DOMAIN s : b > a /\ s[b] = "]" }
    IN  IF opens = {} THEN NaN
        ELSE LET a == Min(opens)
                 b == Min({ c \in DOMAIN s : c > a /\ s[c] = "]" })
             IN  SubSeq(s, a + 1, b - 1)

(***************************************************************************)
(* helpers.py is not among the sources.  What barplots.py imports from it  *)
(* is modelled from the specification and from the way barplots.py uses it.*)
(***************************************************************************)
\* line 184
amino == <<"A", "C", "T", "G">>

\* the six canonical substitution classes, the keys of COLOR_DICT_MUTATION
SubstitutionClasses ==
    << <<"C", ">", "A">>, <<"C", ">", "G">>, <<"C", ">", "T">>,
       <<"T", ">", "A">>, <<"T", ">", "C">>, <<"T", ">", "G">> >>

\* MUTATION_LIST: barplots.py reads characters 0, 2 and -1 of every entry
\* (format_xlabels, line 158), extracts the bracket's content from it (line 139)
\* and cuts the entries into six equal blocks (line 137): the entries are the
\* bracketed keys X[A>B]Y, class by class.  The flanking bases are cut to the
\* first NumFlankBases of amino.
MUTATION_LIST ==
    [ m \in 1 .. (6 * NumFlankBases * NumFlankBases) |->
        LET c == SubstitutionClasses[((m - 1) \div (NumFlankBases * NumFlankBases)) + 1]
            l == amino[(((m - 1) \div NumFlankBases) % NumFlankBases) + 1]
            r == amino[((m - 1) % NumFlankBases) + 1]
        IN  <<l, "[", c[1], ">", c[3], "]", r>> ]

\* flanking bases on each side of the bracketed core [X>Y] of a key whose
\* length is n + 4
FlankWidth(n) == IF n < 1 THEN 0 ELSE (n - 1) \div 2

\* generate_numbers(n): the 0-based indices of the flanking positions, left to right
generate_numbers(n) ==
    LET k == FlankWidth(n)
    IN  [ p \in 1 .. (2 * k) |-> IF p <= k THEN p - 1 ELSE p + 4 ]

\* generate_sequence(n): the position names, -k .. -1 and 1 .. k
generate_sequence(n) ==
    LET k == FlankWidth(n)
    IN  [ p \in 1 .. (2 * k) |-> IF p <= k THEN p - k - 1 ELSE p - k ]

\* custom_sort_column_names: the numeric suffix of a signature name; the key of
\* the derived "context" column is not known and is an input of the sort
custom_sort_column_names(name, contextKey) ==
    CASE name = "SBS1" -> 1
      [] name = "SBS2" -> 2
      [] name = "SBS3" -> 3
      [] name = "SBS10" -> 10
      [] OTHER -> contextKey

\* Python's sorted(columns, key=custom_sort_column_names): a stable insertion sort
RECURSIVE InsertSorted(_, _, _)
InsertSorted(s, x, contextKey) ==
    IF s = <<>> THEN <<x>>
    ELSE IF custom_sort_column_names(x, contextKey)
              < custom_sort_column_names(Head(s), contextKey)
         THEN <<x>> \o s
         ELSE <<Head(s)>> \o InsertSorted(Tail(s), x, contextKey)

RECURSIVE SortedFrom(_, _, _)
SortedFrom(s, acc, contextKey) ==
    IF s = <<>> THEN acc
    ELSE SortedFrom(Tail(s), InsertSorted(acc, Head(s), contextKey), contextKey)

sorted(s, contextKey) == SortedFrom(s, <<>>, contextKey)

(***************************************************************************)
(* The table (a pandas DataFrame).  MutationType is the first column;      *)
(* columns lists the columns after it, in order; values holds the sample   *)
(* columns and context the derived column once line 70 has assigned it.    *)
(***************************************************************************)
Rows(d) == DOMAIN d.MutationType

\* line 70: df["context"] = df["MutationType"].str.extract(...); assigning to
\* the caller's table appends the column when it is new and overwrites it in
\* place when it exists
AssignContext(d) ==
    [ d EXCEPT !.context = [ r \in Rows(d) |-> ExtractContext(d.MutationType[r]) ],
               !.columns = IF "context" \in Range(d.columns)
                           THEN d.columns ELSE Append(d.columns, "context") ]

\* line 71: df.columns[1:-1]
SampleColumnsLarger(d) == AllButLast(d.columns)

\* the mutant of line 86: the slice of line 71 used here as well
SampleColumns96DropLast(d) == AllButLast(d.columns)

\* line 86: df.columns[1:]
SampleColumns96(d) == d.columns

RECURSIVE RowSum(_, _, _)
RowSum(d, col, S) ==
    IF S = {} THEN 0
    ELSE LET r == CHOOSE x \in S : TRUE
         IN  d.values[col][r] + RowSum(d, col, S \ {r})

\* the mutant of line 193: the class filter left out
SelectClassAll(d, mut) == Rows(d)

\* line 193: temp_df = col_df[col_df["context"] == mut]
SelectClass(d, mut) == { r \in Rows(d) : d.context[r] = mut }

\* line 194
total_sbs_mut(d, col, mut) == RowSum(d, col, SelectClass(d, mut))

\* the mutant of lines 204-205: the base filter applied to the whole column
FilteredTotalUnrestricted(d, col, mut, idx, aa) ==
    RowSum(d, col, { r \in Rows(d) : StrAt(d.MutationType[r], idx) = aa })

\* lines 204-205: the rows of the class whose key has base aa at index idx
FilteredTotal(d, col, mut, idx, aa) ==
    RowSum(d, col, { r \in SelectClass(d, mut) : StrAt(d.MutationType[r], idx) = aa })

\* lines 201-206
CellValue(d, col, mut, idx, aa) ==
    IF total_sbs_mut(d, col, mut) = 0 THEN 0
    ELSE FilteredTotal(d, col, mut, idx, aa)

\* lines 195-197: the (index, name) pairs of the first row's key length;
\* df["MutationType"][0] needs a row with label 0
Positions(d) ==
    LET n       == Len(d.MutationType[1]) - 4
        numbers == generate_numbers(n)
        seq     == generate_sequence(n)
    IN  [ p \in 1 .. ZipLen(numbers, seq) |-> [idx |-> numbers[p], name |-> seq[p]] ]

\* parse_lager_context_df, lines 183-210: one row per (mut, position, base),
\* in that order; KeyError on a table without rows (line 195)
parse_lager_context_df(d, col) ==
    IF d.MutationType = <<>>
    THEN [ok |-> FALSE, rows |-> <<>>]
    ELSE LET pos == Positions(d)
             P   == Len(pos)
             A   == Len(amino)
         IN  [ok |-> TRUE,
              rows |-> [ r \in 1 .. (Len(MUTATION_LIST) * P * A) |->
                  LET mut == MUTATION_LIST[((r - 1) \div (P * A)) + 1]
                      p   == pos[(((r - 1) % (P * A)) \div A) + 1]
                      aa  == amino[((r - 1) % A) + 1]
                  IN  [name |-> p.name, context |-> mut, variable |-> aa,
                       sbs |-> col,
                       value |-> CellValue(d, col, mut, p.idx, aa)] ]]

(***************************************************************************)
(* The page renderers.  A renderer gives the page it would append and      *)
(* where, if anywhere, it raises: "before" the figure of line 122 / 228 is *)
(* created, or "after" it (the figure is then still open).  Bar offsets    *)
(* are in thousandths of an x unit; a divider drawn at idx + 0.5 is        *)
(* recorded as idx.                                                        *)
(***************************************************************************)
NoPage ==
    [kind |-> "none", title |-> "", ticks |-> 0, bars |-> 0, dividers |-> {},
     names |-> <<>>, clusters |-> <<>>, offsets |-> <<>>, tickClass |-> <<>>]

\* lines 110-121: x1 - x0 for each cluster; empty unless stacks is 2 or 4
ClusterOffsets(stacks) ==
    IF stacks = 2 THEN <<-225, 225>>
    ELSE IF stacks = 4 THEN <<-300, -100, 100, 300>>
    ELSE <<>>

\* lines 137-154: the last tick of every chunk but the last label's
LargerDividers(nLabels, nTypes) ==
    LET sublist_length == nLabels \div 6
        nChunks == (nLabels + sublist_length - 1) \div sublist_length
        n == IF nChunks < nTypes THEN nChunks ELSE nTypes
    IN  { (IF c * sublist_length < nLabels THEN c * sublist_length ELSE nLabels) - 1 :
            c \in { x \in 1 .. n : x - 1 < nTypes - 1 } }

\* line 100: df["sbs"] of a table without rows or columns raises
PanelRaisesEarly(rows) == rows = <<>>

\* create_increased_context_barplot, lines 100-169
create_increased_context_barplot(rows) ==
    IF PanelRaisesEarly(rows)
    THEN [raise |-> "before", page |-> NoPage]
    ELSE
    LET labels   == Unique([ r \in DOMAIN rows |-> rows[r].context ])
        names    == Unique([ r \in DOMAIN rows |-> rows[r].name ])
        variable == Unique([ r \in DOMAIN rows |-> rows[r].variable ])
        x1       == ClusterOffsets(Len(names))
        drawn    == ZipLen(x1, names)
        missing  == \E c \in 1 .. drawn : \E v \in Range(variable) :
                       ~ \E r \in DOMAIN rows :
                            rows[r].name = names[c] /\ rows[r].variable = v
        types    == Unique([ r \in DOMAIN rows |-> ExtractMutation(rows[r].context) ])
    IN  IF missing \/ Len(labels) \div 6 = 0
        THEN [raise |-> "after", page |-> NoPage]
        ELSE [raise |-> "none",
              page |-> [kind |-> "larger", title |-> rows[1].sbs,
                        ticks |-> Len(labels),
                        bars |-> drawn * Len(variable),
                        dividers |-> LargerDividers(Len(labels), Len(types)),
                        names |-> names,
                        clusters |-> SubSeq(names, 1, drawn),
                        offsets |-> x1,
                        tickClass |-> [ t \in DOMAIN labels |-> ExtractMutation(labels[t]) ]]]

\* lines 243-259: groupby(sort_col).groups in sorted class order, missing values
\* dropped; the divider of every group but the last at its last row label
GroupClasses(mutation) ==
    SelectSeq(SubstitutionClasses, LAMBDA c : c \in Range(mutation))

Dividers96(mutation) ==
    LET groups == GroupClasses(mutation)
    IN  { Max({ r \in DOMAIN mutation : mutation[r] = groups[g] }) - 1 :
            g \in 1 .. (Len(groups) - 1) }

\* line 226: muts = temp_df.MutationType.unique()
TickKeys(d) == Unique(d.MutationType)

\* parse_96_df, lines 222-274, for a numeric sample column
parse_96_df(d, col) ==
    LET mutation == [ r \in Rows(d) |-> ExtractMutation(d.MutationType[r]) ]
        muts     == TickKeys(d)
        drawn    == ZipLen(muts, mutation)
    IN  IF \E r \in 1 .. drawn : mutation[r] \notin Range(SubstitutionClasses)
        THEN [raise |-> "after", page |-> NoPage]
        ELSE [raise |-> "none",
              page |-> [kind |-> "c96", title |-> col,
                        ticks |-> Len(muts),
                        bars |-> drawn,
                        dividers |-> Dividers96(mutation),
                        names |-> <<>>, clusters |-> <<>>, offsets |-> <<>>,
                        tickClass |-> [ t \in DOMAIN muts |-> ExtractMutation(muts[t]) ]]]

(***************************************************************************)
(* The output document (matplotlib's PdfPages) and its with-block.         *)
(***************************************************************************)
NoDocument ==
    [name |-> <<>>, opened |-> 0, closed |-> 0, open |-> FALSE, pages |-> <<>>]

\* lines 72 / 87: PdfPages(path) opens the file
OpenDocument(name) ==
    [name |-> name, opened |-> 1, closed |-> 0, open |-> TRUE, pages |-> <<>>]

\* pdf.savefig, lines 168 / 273
SaveFig(d, page) == [d EXCEPT !.pages = Append(@, page)]

\* the mutant of lines 72 / 87: the document left to the garbage collector
WithExitLeak(d) == d

\* lines 72 / 87: leaving the with-block, normally or by an exception, closes
\* the document
WithExit(d) == [d EXCEPT !.open = FALSE, !.closed = @ + 1]

\* plt.close(), lines 169 / 274: closes the current figure
CloseFigure(n) == n - 1

\* long-form rows with k name groups, as a caller of
\* create_increased_context_barplot may pass them
LongForm(k) ==
    LET A == Len(amino)
        M == Len(MUTATION_LIST)
    IN  [ r \in 1 .. (M * k * A) |->
            [name |-> (((r - 1) % (k * A)) \div A) + 1,
             context |-> MUTATION_LIST[((r - 1) \div (k * A)) + 1],
             variable |-> amino[((r - 1) % A) + 1],
             sbs |-> "SBS1",
             value |-> 0] ]

(***************************************************************************)
(* The state machine.  A report call is a start (the lines before the      *)
(* loop), then for each sorted column a Prepare step (up to the creation   *)
(* of the figure) and a Render step (drawing, savefig, plt.close), then    *)
(* the exit of the with-block.  An exception raised inside the with-block  *)
(* leaves it at once.  fault is an error of the environment (a full disk   *)
(* under savefig, say) injected on the column at hand.                     *)
(***************************************************************************)
\* the tables with n rows, the sample columns cols and cell values from V
TablesOf(n, cols, V, K) ==
    { [MutationType |-> keys, columns |-> cols, values |-> vals, context |-> <<>>] :
        keys \in [1 .. n -> K],
        vals \in [Range(cols) -> [1 .. n -> V]] }

Tables(V, orders, K) ==
    UNION { TablesOf(n, cols, V, K) : n \in 0 .. MaxRows, cols \in orders }

\* no call made yet on the table t
Fresh(t) ==
    /\ df = t
    /\ callerCols = df.columns
    /\ pc = "idle"
    /\ call = "none"
    /\ sorted_columns = <<>>
    /\ i = 0
    /\ result_df = <<>>
    /\ doc = NoDocument
    /\ figures = 0
    /\ outcome = "none"
    /\ cause = "none"
    /\ injected = FALSE
    /\ calls = 0

\* the report calls: no step of theirs branches on a cell's value, and every
\* cell holds the same count
Init == \E t \in Tables({1}, ColumnOrders, Keys) : Fresh(t)

CanStart == pc = "idle" /\ calls < MaxCalls

\* an exception leaves a report call through its with-block
Raise(why, fault) ==
    /\ doc' = IF call \in {"larger", "c96"} THEN WithExit(doc) ELSE doc
    /\ pc' = "done"
    /\ outcome' = "error"
    /\ cause' = why
    /\ injected' = (injected \/ fault)

\* larger_context_barplot, lines 70-72
StartLarger ==
    /\ CanStart
    /\ df' = AssignContext(df)
    /\ sorted_columns' = sorted(SampleColumnsLarger(df'), 0)
    /\ doc' = OpenDocument(<<"signatures", Len(df.MutationType)>>)
    /\ call' = "larger"
    /\ pc' = "loop"
    /\ i' = 0
    /\ result_df' = <<>>
    /\ outcome' = "none"
    /\ cause' = "none"
    /\ injected' = FALSE
    /\ calls' = calls + 1
    /\ UNCHANGED <<callerCols, figures>>

\* create_96_barplot, lines 86-87.  What custom_sort_column_names does with a
\* column that is no signature name is not known: it raises, or orders the
\* column before or after the signatures.
Start96 ==
    /\ CanStart
    /\ \E how \in {"raise", "first", "last"} :
         IF "context" \in Range(SampleColumns96(df)) /\ how = "raise"
         THEN /\ doc' = NoDocument
              /\ sorted_columns' = <<>>
              /\ pc' = "done"
              /\ outcome' = "error"
              /\ cause' = "sort"
         ELSE /\ sorted_columns' =
                    sorted(SampleColumns96(df), IF how = "last" THEN 1000 ELSE 0)
              /\ doc' = OpenDocument(<<"signatures", 96>>)
              /\ pc' = "loop"
              /\ outcome' = "none"
              /\ cause' = "none"
    /\ call' = "c96"
    /\ i' = 0
    /\ result_df' = <<>>
    /\ injected' = FALSE
    /\ calls' = calls + 1
    /\ UNCHANGED <<df, callerCols, figures>>

\* a caller hands long-form rows with k name groups and its own open document
\* to create_increased_context_barplot
StartPanel ==
    /\ CanStart
    /\ \E k \in 0 .. MaxGroups : result_df' = LongForm(k)
    /\ sorted_columns' = <<"SBS1">>
    /\ doc' = OpenDocument(<<"panel">>)
    /\ call' = "panel"
    /\ pc' = "loop"
    /\ i' = 0
    /\ outcome' = "none"
    /\ cause' = "none"
    /\ injected' = FALSE
    /\ calls' = calls + 1
    /\ UNCHANGED <<df, callerCols, figures>>

\* lines 73-74 and 100-122 (larger), 88 and 222-228 (96): the next column up to
\* the creation of its figure
Prepare ==
    /\ pc = "loop"
    /\ i < Len(sorted_columns)
    /\ \E fault \in BOOLEAN :
         LET col    == sorted_columns[i + 1]
             parsed == IF call = "larger" THEN parse_lager_context_df(df, col)
                       ELSE [ok |-> TRUE, rows |-> result_df]
             early  == call # "c96" /\ parsed.ok /\ PanelRaisesEarly(parsed.rows)
         IN  IF fault \/ ~parsed.ok \/ early
             THEN /\ Raise(IF fault THEN "injected"
                           ELSE IF ~parsed.ok THEN "parse" ELSE "panel", fault)
                  /\ UNCHANGED <<result_df, figures>>
             ELSE /\ result_df' = parsed.rows
                  /\ figures' = figures + 1
                  /\ pc' = "render"
                  /\ UNCHANGED <<doc, outcome, cause, injected>>
    /\ UNCHANGED <<df, callerCols, call, sorted_columns, i, calls>>

\* lines 123-169 (larger), 229-274 (96): the bars, the dividers, savefig and
\* plt.close().  The heights of the derived context column are strings: whether
\* matplotlib draws them or raises is not decided here.
Render ==
    /\ pc = "render"
    /\ \E fault \in BOOLEAN : \E stringsDrawn \in BOOLEAN :
         LET col == sorted_columns[i + 1]
             r   == IF call = "c96" THEN parse_96_df(df, col)
                    ELSE create_increased_context_barplot(result_df)
             bad == call = "c96" /\ col = "context" /\ ~stringsDrawn
         IN  IF fault \/ bad \/ r.raise # "none"
             THEN /\ Raise(IF fault THEN "injected" ELSE "render", fault)
                  /\ UNCHANGED <<figures, i>>
             ELSE /\ doc' = SaveFig(doc, r.page)
                  /\ figures' = CloseFigure(figures)
                  /\ i' = i + 1
                  /\ pc' = "loop"
                  /\ UNCHANGED <<outcome, cause, injected>>
    /\ UNCHANGED <<df, callerCols, call, sorted_columns, result_df, calls>>

\* the loop is over: the with-block is left and the call returns
ExitLoop ==
    /\ pc = "loop"
    /\ i >= Len(sorted_columns)
    /\ doc' = IF call \in {"larger", "c96"} THEN WithExit(doc) ELSE doc
    /\ pc' = "done"
    /\ outcome' = "ok"
    /\ UNCHANGED <<df, callerCols, call, sorted_columns, i, result_df, figures,
                   cause, injected, calls>>

\* the call has returned or raised: its locals are gone; the table, which is
\* the caller's, and pyplot's open figures stay
Return ==
    /\ pc = "done"
    /\ pc' = "idle"
    /\ call' = "none"
    /\ sorted_columns' = <<>>
    /\ i' = 0
    /\ result_df' = <<>>
    /\ doc' = NoDocument
    /\ outcome' = "none"
    /\ cause' = "none"
    /\ injected' = FALSE
    /\ UNCHANGED <<df, callerCols, figures, calls>>

Next == StartLarger \/ Start96 \/ Prepare \/ Render \/ ExitLoop \/ Return

Spec == Init /\ [][Next]_vars

\* the panel renderer called on its own, on long-form rows of a caller
InitPanel ==
    Fresh([MutationType |-> <<>>, columns |-> <<>>, values |-> <<>>, context |-> <<>>])

NextPanel == StartPanel \/ Prepare \/ Render \/ ExitLoop \/ Return

SpecPanel == InitPanel /\ [][NextPanel]_vars


\* parse_lager_context_df called on a column of a table that carries the
\* context column of line 70
ApplyParse ==
    /\ pc = "idle"
    /\ \E col \in Range(SampleColumnsLarger(df)) :
         LET parsed == parse_lager_context_df(df, col)
         IN  /\ result_df' = parsed.rows
             /\ sorted_columns' = <<col>>
             /\ outcome' = IF parsed.ok THEN "ok" ELSE "error"
             /\ cause' = IF parsed.ok THEN "none" ELSE "parse"
    /\ call' = "parse"
    /\ pc' = "done"
    /\ UNCHANGED <<df, callerCols, i, doc, figures, injected, calls>>

InitParse == \E t \in Tables(Values, ParseColumnOrders, ParseKeys) : Fresh(AssignContext(t))

NextParse == ApplyParse \/ Return

SpecParse == InitParse /\ [][NextParse]_vars

(***************************************************************************)
(* Properties.                                                             *)
(***************************************************************************)
InReport == call \in {"larger", "c96"}

\* C1: in a report call the document, once opened, is closed exactly once
\* before the call ends, also when a column fails (by an injected fault or
\* otherwise); no page is appended after the close, and the columns after a
\* failed one are not rendered: the pages are those of the columns before it.
C1_DocumentState ==
    InReport /\ doc.opened = 1 =>
        /\ doc.closed <= 1
        /\ doc.open <=> doc.closed = 0
        /\ pc = "done" => doc.closed = 1
        /\ pc # "done" => doc.closed = 0
        /\ outcome = "ok" => Len(doc.pages) = Len(sorted_columns)
        /\ outcome = "error" =>
              Len(doc.pages) = i /\ i < Len(sorted_columns) /\ pc = "done"

C1_DocumentStep ==
    InReport /\ call' = call /\ doc.closed >= 1 =>
        /\ doc' = doc
        /\ figures' = figures

C1_ClosedExactlyOnce == [] C1_DocumentState /\ [][C1_DocumentStep]_vars

\* C1's case: the second of three columns failed by an injected fault, after the
\* first column's page was appended
C1_Witness ==
    /\ InReport /\ pc = "done" /\ outcome = "error" /\ injected
    /\ Len(sorted_columns) = 3 /\ i = 1
    /\ Len(doc.pages) = 1 /\ doc.closed = 1 /\ ~doc.open

SignatureNames == {"SBS1", "SBS2", "SBS3", "SBS10"}

KnownClass(key) == ExtractMutation(key) \in Range(SubstitutionClasses)

\* C5: create_96_barplot that returns has written one document,
\* signatures.96.pdf, with one page per column after the first, the signature
\* columns in numeric order, and every page has one tick and one bar per
\* distinct mutation-type string; on a table as the caller supplied it whose
\* keys all carry a known substitution class it returns unless a fault is
\* injected.
C5_OnePagePerColumn ==
    call = "c96" /\ pc = "done" =>
        /\ outcome = "ok" =>
              /\ doc.opened = 1 /\ doc.closed = 1
              /\ doc.name = <<"signatures", 96>>
              /\ Len(doc.pages) = Len(df.columns)
              /\ { doc.pages[p].title : p \in DOMAIN doc.pages } = Range(df.columns)
              /\ \A p \in DOMAIN doc.pages : \A q \in DOMAIN doc.pages :
                    /\ p < q
                    /\ doc.pages[p].title \in SignatureNames
                    /\ doc.pages[q].title \in SignatureNames
                    => custom_sort_column_names(doc.pages[p].title, 0)
                         <= custom_sort_column_names(doc.pages[q].title, 0)
              /\ \A p \in DOMAIN doc.pages :
                    /\ doc.pages[p].kind = "c96"
                    /\ doc.pages[p].ticks = Cardinality(Range(df.MutationType))
                    /\ doc.pages[p].bars = Cardinality(Range(df.MutationType))
        /\ ( /\ ~injected
             /\ df.columns = callerCols
             /\ \A r \in Rows(df) : KnownClass(df.MutationType[r]) )
           => outcome = "ok"

\* C5's case: two sample columns given out of numeric order, two distinct keys
C5_Witness ==
    /\ call = "c96" /\ pc = "done" /\ outcome = "ok"
    /\ callerCols = <<"SBS10", "SBS2">>
    /\ Len(doc.pages) = 2
    /\ doc.pages[1].title = "SBS2" /\ doc.pages[2].title = "SBS10"
    /\ doc.pages[1].ticks = 2

\* a key of the form X[A>B]Y
Trinucleotide(key) ==
    /\ Len(key) = 7
    /\ key[1] \in WordChars /\ key[2] = "[" /\ key[3] \in WordChars
    /\ key[4] = ">" /\ key[5] \in WordChars /\ key[6] = "]" /\ key[7] \in WordChars

\* m occurs in key as a run of consecutive characters
Carries(key, m) ==
    \E a \in 0 .. (Len(key) - Len(m)) : SubSeq(key, a + 1, a + Len(m)) = m

\* C4 as stated: the context derived for a key X[A>B]Y is the substitution
\* token A>B alone.
C4_ContextIsSubstitution ==
    call = "larger" =>
        \A r \in Rows(df) :
            Trinucleotide(df.MutationType[r]) =>
                df.context[r] = SubSeq(df.MutationType[r], 3, 5)

\* C4 as amended: the context derived for a key X[A>B]Y is the whole key (for
\* the longer keys, the bracket with the one base on each side of it), so
\* selecting the rows whose context equals an entry X[A>B]Y of MUTATION_LIST
\* selects exactly the rows whose key carries that bracketed core, and
\* selecting by a bare class token A>B selects no row.
C4_ContextIsBracketedCore ==
    call = "larger" =>
        /\ \A r \in Rows(df) :
              Trinucleotide(df.MutationType[r]) => df.context[r] = df.MutationType[r]
        /\ \A m \in Range(MUTATION_LIST) :
              SelectClass(df, m) = { r \in Rows(df) : Carries(df.MutationType[r], m) }
        /\ \A c \in Range(SubstitutionClasses) : SelectClass(df, c) = {}

\* C4's case: a trinucleotide key and a pentanucleotide key with the same core
C4_Witness ==
    /\ call = "larger"
    /\ df.MutationType = <<Key_Penta, Key_CCA_A>>
    /\ df.context = <<Key_ACA_A, Key_CCA_A>>
    /\ SelectClass(df, Key_ACA_A) = {1}

\* the row parse_lager_context_df emitted for the mi-th entry of MUTATION_LIST,
\* the pi-th position and the ai-th base: the rows come entry by entry, position
\* by position, base by base
RowAt(mi, pi, ai) ==
    result_df[((mi - 1) * Len(Positions(df)) + (pi - 1)) * Len(amino) + ai]

\* the rows of one (entry, position) are labelled with the entry, the
\* position's name and the four bases
BlockLabelled(mi, pi) ==
    \A ai \in DOMAIN amino :
        /\ RowAt(mi, pi, ai).context = MUTATION_LIST[mi]
        /\ RowAt(mi, pi, ai).name = Positions(df)[pi].name
        /\ RowAt(mi, pi, ai).variable = amino[ai]
        /\ RowAt(mi, pi, ai).sbs = sorted_columns[1]

RECURSIVE BlockSum(_, _, _)
BlockSum(mi, pi, n) ==
    IF n = 0 THEN 0 ELSE RowAt(mi, pi, n).value + BlockSum(mi, pi, n - 1)

\* totalForClass, from the table: the column's sum over the rows of the entry
ClassRows(m) == { r \in Rows(df) : df.context[r] = m }

ClassTotal(m) == RowSum(df, sorted_columns[1], ClassRows(m))

Parsed == call = "parse" /\ pc = "done"

\* C2 as stated: for every table, every entry with a positive total and every
\* position, the four emitted values sum to the total.
C2_Conservation ==
    Parsed /\ outcome = "ok" =>
        \A mi \in DOMAIN MUTATION_LIST : \A pi \in DOMAIN Positions(df) :
            ClassTotal(MUTATION_LIST[mi]) > 0 =>
                BlockSum(mi, pi, Len(amino)) = ClassTotal(MUTATION_LIST[mi])

\* every row of the entry holds one of the four bases at the position
BasesAt(m, idx) ==
    \A r \in ClassRows(m) : StrAt(df.MutationType[r], idx) \in Range(amino)

\* C2 as amended: the four emitted values sum to the total at every position
\* at which every row of the entry holds one of A, C, T, G (the positions are
\* those of the first row's key length).
C2_ConservationWhereBases ==
    Parsed /\ outcome = "ok" =>
        /\ Len(result_df) = Len(MUTATION_LIST) * Len(Positions(df)) * Len(amino)
        /\ \A mi \in DOMAIN MUTATION_LIST : \A pi \in DOMAIN Positions(df) :
              /\ ClassTotal(MUTATION_LIST[mi]) > 0
              /\ BasesAt(MUTATION_LIST[mi], Positions(df)[pi].idx)
              => /\ BlockLabelled(mi, pi)
                 /\ BlockSum(mi, pi, Len(amino)) = ClassTotal(MUTATION_LIST[mi])

\* C2's case: two rows of one entry, A[C>A]A, with the same base at the first
\* of four positions
C2_Witness ==
    /\ Parsed /\ outcome = "ok"
    /\ df.MutationType = <<Key_Penta, Key_Penta>>
    /\ ClassTotal(Key_ACA_A) = 2
    /\ \A p \in Range(Positions(df)) : BasesAt(Key_ACA_A, p.idx)
    /\ Len(Positions(df)) = 4
    /\ MUTATION_LIST[1] = Key_ACA_A
    /\ RowAt(1, 1, 2).variable = "C" /\ RowAt(1, 1, 2).value = 2

\* the entries with zero total emit the value zero, one row per (position, base)
ZeroEntriesEmitZero ==
    /\ Len(result_df) = Len(MUTATION_LIST) * Len(Positions(df)) * Len(amino)
    /\ \A mi \in DOMAIN MUTATION_LIST :
          ClassTotal(MUTATION_LIST[mi]) = 0 =>
              \A pi \in DOMAIN Positions(df) :
                  /\ BlockLabelled(mi, pi)
                  /\ \A ai \in DOMAIN amino : RowAt(mi, pi, ai).value = 0

\* C3 as stated: for every table, parse_lager_context_df does not fail and the
\* entries with zero total emit zero for each base at every position.
C3_ZeroTotalNeverFails ==
    Parsed => outcome = "ok" /\ ZeroEntriesEmitZero

\* C3 as amended: the same for every table that has at least one row.
C3_ZeroTotalOnTablesWithRows ==
    Parsed /\ df.MutationType # <<>> => outcome = "ok" /\ ZeroEntriesEmitZero

\* C3's case: one entry with a positive total beside the entries without rows,
\* and one entry whose only row holds zero
C3_Witness ==
    /\ Parsed /\ outcome = "ok"
    /\ df.MutationType = <<Key_ACA_A, Key_ATC_C>>
    /\ ClassTotal(Key_ACA_A) = 1
    /\ ClassTotal(Key_ATC_C) = 0
    /\ ClassTotal(Key_CCA_A) = 0
    /\ Len(Positions(df)) = 2
    /\ Len(result_df) = Len(MUTATION_LIST) * 2 * Len(amino)

\* the pattern of the call at hand finds nothing in the key
FailsPattern(key) ==
    IF call = "larger" THEN ExtractContext(key) = NaN ELSE ExtractMutation(key) = NaN

\* C6: a report call on a table with a row whose key fails the bracket pattern
\* ends with an error; it does not return normally with a page appended.
C6_MalformedKeySurfaced ==
    ( /\ InReport /\ pc = "done"
      /\ \E r \in Rows(df) : FailsPattern(df.MutationType[r]) )
    => (outcome = "error" \/ doc.pages = <<>>)

\* C7: a page of create_increased_context_barplot whose rows have a number of
\* name groups other than 2 or 4 has a bar cluster for every name group (or
\* the call is rejected and no page is appended).
C7_EveryNameGroupDrawn ==
    call = "panel" =>
        \A p \in DOMAIN doc.pages :
            Len(doc.pages[p].names) \notin {2, 4} =>
                Range(doc.pages[p].clusters) = Range(doc.pages[p].names)

\* the ticks (0-based) after which the substitution class changes
ClassChanges(page) ==
    { t \in 0 .. (page.ticks - 2) : page.tickClass[t + 1] # page.tickClass[t + 2] }

\* C8: on a page of parse_96_df the dividers stand exactly where the class of
\* a tick differs from the class of the next one, the blocks between them are
\* one per class present, and no divider follows the last tick.
C8_DividersAtClassChanges ==
    call = "c96" =>
        \A p \in DOMAIN doc.pages :
            doc.pages[p].title \in SignatureNames /\ doc.pages[p].ticks > 0 =>
                /\ doc.pages[p].dividers = ClassChanges(doc.pages[p])
                /\ Cardinality(ClassChanges(doc.pages[p])) + 1
                     = Cardinality(Range(doc.pages[p].tickClass))
                /\ (doc.pages[p].ticks - 1) \notin doc.pages[p].dividers

\* C9: every report call in a sequence of calls on one table treats as sample
\* columns the columns of the table as the caller supplied it, and a call that
\* returns has rendered one page for each of them.
C9_SameSampleColumns ==
    InReport =>
        /\ pc \in {"loop", "render"} => Range(sorted_columns) = Range(callerCols)
        /\ outcome = "ok" =>
              { doc.pages[p].title : p \in DOMAIN doc.pages } = Range(callerCols)

\* C10: at most one figure is open at any point, and none once a call has
\* ended, normally or by an exception that the rendering of a column raised
\* (no fault of the environment is needed).
C10_NoFigureLeftOpen ==
    ~injected =>
        /\ figures <= 1
        /\ pc = "done" => figures = 0

====
